---- MODULE Spec2Model ----
(***************************************************************************)
(* The batched OCR pipeline of PDFExtractor (src/file_processor.py) and    *)
(* the remote recognition client it drives (src/xunfei_ocr.py).            *)
(*                                                                         *)
(* One job is one call of PDFExtractor._extract_with_ocr: lazy client      *)
(* construction, the whole-document / batched decision, the batch loop     *)
(* with its retry loop, the incremental result file, the completion        *)
(* banner and the read-back of the result file.  A remote call is the      *)
(* submit / poll / download sequence of XunfeiOCR.ocr_pdf.                 *)
(***************************************************************************)
EXTENDS Integers, Sequences, FiniteSets, TLC

\* ----------------------------------------------------------------- bounds
MaxPages == 3          \* page counts 0..MaxPages
MaxBatchSize == 2      \* batch sizes 1..MaxBatchSize
MaxRetries == 2        \* max_retries 0..MaxRetries
MaxSizeMb == 2         \* file sizes 0..MaxSizeMb (MB)
MaxThreshold == 2      \* thresholds 0..MaxThreshold in the planner specification
ThresholdPages == 1    \* batch_threshold_pages of the job specification
ThresholdMb == 1       \* batch_threshold_mb of the job specification
MaxIoFaults == 1       \* local file-system failures injected into one job
max_wait_time == 10    \* polling timeout in seconds (parameter of get_task_result)
MaxBadBatchSize == 1   \* batch sizes -MaxBadBatchSize..0 of the bad-plan specification

\* ------------------------------------------------------ program constants
check_interval == 5    \* seconds slept between two polls

VARIABLES
    \* inputs of the job: the document and the configuration
    page_count,             \* _get_pdf_page_count(file_path); 0 when unknown
    unreadable,             \* pages (0-based) that add_page cannot copy
    file_size_mb,           \* size of the document in MB
    batch_enabled,
    batch_threshold_pages,
    batch_threshold_mb,
    batch_size,
    max_retries,
    \* control
    pc,                     \* position of the job in the code
    mode,                   \* "none", "whole" (direct call) or "batch" (inside the batch loop)
    num_batches,
    batch_idx,
    retry_attempt,
    elapsed,                \* seconds waited by the polling loop of the current task
    pending,                \* how the job ends once the finally clause has run
    \* data
    ocr_extractor,          \* "none" or "ready": the lazily built client
    all_texts,              \* in-memory list of marked batch texts
    file_exists,            \* the result file batch_output_file exists
    file_content,           \* its content, a sequence of items
    temp_dir,               \* the temporary directory exists
    temp_files,             \* batch indices whose sub-document exists in it
    result,                 \* text returned to the caller
    error,                  \* error raised to the caller
    \* observation of the run (what the log lines of the code report)
    path,                   \* mode announced by the decision: "none", "whole", "batched"
    whole_calls,            \* extract calls made on the whole document
    old_cleared,            \* the result file of an earlier run was deleted
    last_poll,              \* what the last query or download of the running task met
    status,                 \* per batch: Pending, Running, Succeeded, FailedPermanently
    attempts,               \* extract calls made for the current batch
    saved,                  \* batches whose result was reported saved
    ranges,                 \* page ranges computed by the loop so far
    cancelled,              \* a KeyboardInterrupt was raised
    read_failed,            \* the read-back of the result file failed
    io_faults               \* local file-system failures so far

cfg == <<page_count, unreadable, file_size_mb, batch_enabled, batch_threshold_pages,
         batch_threshold_mb, batch_size, max_retries>>
ctl == <<pc, mode, num_batches, batch_idx, retry_attempt, elapsed, pending>>
data == <<ocr_extractor, all_texts, file_exists, file_content, temp_dir,
          temp_files, result, error>>
obs == <<path, whole_calls, old_cleared, last_poll, status, attempts, saved, ranges, cancelled, read_failed, io_faults>>
vars == <<cfg, ctl, data, obs>>

\* ---------------------------------------------------------------- helpers
Min(a, b) == IF a < b THEN a ELSE b

\* One unit of text: a header, a section label, a marked batch text, ...
Item(kind, a, b, c) == [kind |-> kind, a |-> a, b |-> b, c |-> c]

total_pages == page_count

\* ShouldBatch without the check that the page count is known
ShouldBatch_NoPageCheck(enabled, pages, size, threshold_pages, threshold_mb) ==
    enabled /\ (pages > threshold_pages \/ size > threshold_mb)

\* ShouldBatch that batches a document already at its threshold
ShouldBatch_Inclusive(enabled, pages, size, threshold_pages, threshold_mb) ==
    enabled /\ ((pages >= threshold_pages \/ size >= threshold_mb) /\ pages > 0)

\* should_batch of _extract_with_ocr
ShouldBatch(enabled, pages, size, threshold_pages, threshold_mb) ==
    enabled /\ ((pages > threshold_pages \/ size > threshold_mb) /\ pages > 0)

\* num_batches, start_page and end_page of _extract_pdf_in_batches
\* a // b of Python: the quotient rounded towards minus infinity (b # 0)
FloorDiv(a, b) == IF b > 0 THEN a \div b ELSE (0 - a) \div (0 - b)
NumBatches(pages, size) == FloorDiv(pages + size - 1, size)
StartPage(idx) == idx * batch_size
\* EndPage that does not clamp the last batch to the page count
EndPage_NoClamp(idx) == (idx + 1) * batch_size
EndPage(idx) == Min((idx + 1) * batch_size, total_pages)

\* pages of batch idx that reach its sub-document: a page that cannot be
\* copied is skipped with a warning
Copied(idx) ==
    Cardinality({page \in StartPage(idx)..(EndPage(idx) - 1) : page \notin unreadable})

\* the page loop of a batch: add_page for every page of the range in order, a
\* page whose add_page raises is skipped
RECURSIVE CopyPages(_, _)
CopyPages(page, end) ==
    IF page >= end
    THEN <<>>
    ELSE (IF page \in unreadable THEN <<>> ELSE <<page>>) \o CopyPages(page + 1, end)
\* SubDocument that copies one page more than the range holds
SubDocument_Inclusive(idx) == CopyPages(StartPage(idx), EndPage(idx) + 1)
\* the pages of the sub-document of batch idx, in the order they were added
SubDocument(idx) == CopyPages(StartPage(idx), EndPage(idx))

\* marked_text: "[批次 i+1: 页 start+1 - end]\n text"
MarkedText(idx) == Item("text", idx + 1, StartPage(idx) + 1, EndPage(idx))
\* the file header written with the first batch
FileHeader == Item("header", 0, total_pages, batch_size)
\* the delimiter block "批次 i+1/N (页 start+1 - end)" that opens a section
SectionLabel(idx) == Item("label", idx + 1, StartPage(idx) + 1, EndPage(idx))
\* the number of successes the banner and the closing report give
ReportedSuccesses == Len(all_texts)
\* the completion banner
Banner == Item("banner", ReportedSuccesses, total_pages, 0)
\* the text the whole-document call returns
WholeText == Item("ocr", 0, 0, 0)
\* what an earlier job left in the result file
OldItem == Item("old", 0, 0, 0)
\* combined_text of the in-memory fallback
CombinedText == <<Item("memhdr", Len(all_texts), total_pages, 0)>> \o all_texts

\* ------------------------------------------------------------------- Init
\* A job starts on an extractor that is new or has served an earlier job: the
\* client may exist already, and an earlier run may have left its result file.
InitJob ==
    /\ pc = "start" /\ mode = "none" /\ num_batches = 0 /\ batch_idx = 0
    /\ retry_attempt = 0 /\ elapsed = 0 /\ pending = "none"
    /\ ocr_extractor \in {"none", "ready"}
    /\ all_texts = <<>>
    /\ file_exists \in BOOLEAN
    /\ file_content = IF file_exists THEN <<OldItem>> ELSE <<>>
    /\ temp_dir = FALSE /\ temp_files = {}
    /\ result = <<>> /\ error = "none"
    /\ path = "none" /\ whole_calls = 0 /\ old_cleared = FALSE /\ last_poll = "none" /\ status = <<>> /\ attempts = 0 /\ saved = {}
    /\ ranges = <<>> /\ cancelled = FALSE /\ read_failed = FALSE /\ io_faults = 0

Init ==
    /\ page_count \in 0..MaxPages
    /\ unreadable = {}
    /\ file_size_mb \in {0, MaxSizeMb}
    /\ batch_enabled \in BOOLEAN
    /\ batch_threshold_pages = ThresholdPages
    /\ batch_threshold_mb = ThresholdMb
    /\ batch_size \in 1..MaxBatchSize
    /\ max_retries \in 0..MaxRetries
    /\ InitJob

\* ------------------------------------------------- _extract_with_ocr, top
\* lazy construction of the client succeeds (or it exists already)
EnsureOcrOk ==
    /\ pc = "start"
    /\ ocr_extractor' = "ready"
    /\ pc' = "decide"
    /\ UNCHANGED <<cfg, mode, num_batches, batch_idx, retry_attempt, elapsed, pending>>
    /\ UNCHANGED <<all_texts, file_exists, file_content, temp_dir, temp_files, result, error>>
    /\ UNCHANGED obs

\* EnsureOcrFail that builds the client anew although one exists
EnsureOcrFail_Rebuild ==
    /\ pc = "start"
    /\ ocr_extractor' = "none"
    /\ pc' = "raised"
    /\ error' = "OcrInitError"
    /\ UNCHANGED <<cfg, mode, num_batches, batch_idx, retry_attempt, elapsed, pending>>
    /\ UNCHANGED <<all_texts, file_exists, file_content, temp_dir, temp_files, result>>
    /\ UNCHANGED obs

\* lazy construction fails: ValueError to the caller, client stays unset
EnsureOcrFail ==
    /\ pc = "start"
    /\ ocr_extractor = "none"
    /\ pc' = "raised"
    /\ error' = "OcrInitError"
    /\ UNCHANGED <<cfg, mode, num_batches, batch_idx, retry_attempt, elapsed, pending>>
    /\ UNCHANGED <<ocr_extractor, all_texts, file_exists, file_content, temp_dir, temp_files, result>>
    /\ UNCHANGED obs

\* Decide whose whole-document path clears the result file like a batched job
Decide_ClearsStore ==
    /\ pc = "decide"
    /\ IF ShouldBatch(batch_enabled, page_count, file_size_mb,
                      batch_threshold_pages, batch_threshold_mb)
       THEN /\ path' = "batched"
            /\ pc' = "batch_start"
            /\ mode' = mode
            /\ whole_calls' = whole_calls
            /\ UNCHANGED <<file_exists, file_content>>
       ELSE /\ path' = "whole"
            /\ pc' = "submit"
            /\ mode' = "whole"
            /\ whole_calls' = whole_calls + 1
            /\ file_exists' = FALSE
            /\ file_content' = <<>>
    /\ UNCHANGED <<cfg, num_batches, batch_idx, retry_attempt, elapsed, pending>>
    /\ UNCHANGED <<ocr_extractor, all_texts, temp_dir, temp_files, result, error>>
    /\ UNCHANGED <<old_cleared, last_poll, status, attempts, saved, ranges, cancelled, read_failed, io_faults>>

\* the decision; the whole-document path calls extract(file_path) at once
Decide ==
    /\ pc = "decide"
    /\ IF ShouldBatch(batch_enabled, page_count, file_size_mb,
                      batch_threshold_pages, batch_threshold_mb)
       THEN /\ path' = "batched"
            /\ pc' = "batch_start"
            /\ mode' = mode
            /\ whole_calls' = whole_calls
       ELSE /\ path' = "whole"
            /\ pc' = "submit"
            /\ mode' = "whole"
            /\ whole_calls' = whole_calls + 1
    /\ UNCHANGED <<cfg, num_batches, batch_idx, retry_attempt, elapsed, pending>>
    /\ UNCHANGED data
    /\ UNCHANGED <<old_cleared, last_poll, status, attempts, saved, ranges, cancelled, read_failed, io_faults>>

\* BatchStart that appends to the result file an earlier run left
BatchStart_KeepsOld ==
    /\ pc = "batch_start"
    /\ UNCHANGED <<file_exists, file_content, old_cleared>>
    /\ temp_dir' = TRUE
    /\ mode' = "batch"
    /\ batch_idx' = 0
    /\ IF batch_size = 0
       THEN \* ZeroDivisionError at the computation of num_batches
            /\ num_batches' = 0
            /\ status' = <<>>
            /\ pc' = "finally"
            /\ pending' = "raised"
            /\ error' = "ZeroDivisionError"
       ELSE /\ num_batches' = NumBatches(total_pages, batch_size)
            /\ status' = [i \in 0..(num_batches' - 1) |-> "Pending"]
            /\ IF num_batches' > 0
               THEN pc' = "split" /\ UNCHANGED <<pending, error>>
               ELSE \* range(num_batches) is empty and so is all_texts
                    /\ pc' = "finally"
                    /\ pending' = "raised"
                    /\ error' = "AllBatchesFailed"
    /\ UNCHANGED <<cfg, retry_attempt, elapsed>>
    /\ UNCHANGED <<ocr_extractor, all_texts, temp_files, result>>
    /\ UNCHANGED <<path, whole_calls, last_poll, attempts, saved, ranges, cancelled, read_failed, io_faults>>

\* ------------------------------------------- _extract_pdf_in_batches, top
\* clears the old result file, makes the temporary directory, plans the batches
BatchStart ==
    /\ pc = "batch_start"
    /\ file_exists' = FALSE
    /\ file_content' = <<>>
    /\ old_cleared' = file_exists
    /\ temp_dir' = TRUE
    /\ mode' = "batch"
    /\ batch_idx' = 0
    /\ IF batch_size = 0
       THEN \* ZeroDivisionError at the computation of num_batches
            /\ num_batches' = 0
            /\ status' = <<>>
            /\ pc' = "finally"
            /\ pending' = "raised"
            /\ error' = "ZeroDivisionError"
       ELSE /\ num_batches' = NumBatches(total_pages, batch_size)
            /\ status' = [i \in 0..(num_batches' - 1) |-> "Pending"]
            /\ IF num_batches' > 0
               THEN pc' = "split" /\ UNCHANGED <<pending, error>>
               ELSE \* range(num_batches) is empty and so is all_texts
                    /\ pc' = "finally"
                    /\ pending' = "raised"
                    /\ error' = "AllBatchesFailed"
    /\ UNCHANGED <<cfg, retry_attempt, elapsed>>
    /\ UNCHANGED <<ocr_extractor, all_texts, temp_files, result>>
    /\ UNCHANGED <<path, whole_calls, last_poll, attempts, saved, ranges, cancelled, read_failed, io_faults>>

\* deleting the old result file fails: the error leaves the job before the
\* temporary directory is made
BatchStartFail ==
    /\ pc = "batch_start"
    /\ file_exists
    /\ io_faults < MaxIoFaults
    /\ io_faults' = io_faults + 1
    /\ pc' = "raised"
    /\ error' = "ClearError"
    /\ UNCHANGED <<cfg, mode, num_batches, batch_idx, retry_attempt, elapsed, pending>>
    /\ UNCHANGED <<ocr_extractor, all_texts, file_exists, file_content, temp_dir, temp_files, result>>
    /\ UNCHANGED <<path, whole_calls, old_cleared, last_poll, status, attempts, saved, ranges, cancelled, read_failed>>

\* LoopNext whose post-loop check raises when any batch is without text
LoopNext_RaiseOnFailure(texts) ==
    /\ retry_attempt' = 0
    /\ attempts' = 0
    /\ elapsed' = 0
    /\ IF batch_idx + 1 < num_batches
       THEN /\ pc' = "split"
            /\ batch_idx' = batch_idx + 1
            /\ UNCHANGED <<pending, error>>
       ELSE /\ batch_idx' = batch_idx
            /\ IF Len(texts) < num_batches
               THEN /\ pc' = "finally"
                    /\ pending' = "raised"
                    /\ error' = "AllBatchesFailed"
               ELSE /\ pc' = "banner"
                    /\ UNCHANGED <<pending, error>>

\* the for loop moves on after a batch has resolved; after the last batch the
\* post-loop check raises when no text was collected
LoopNext(texts) ==
    /\ retry_attempt' = 0
    /\ attempts' = 0
    /\ elapsed' = 0
    /\ IF batch_idx + 1 < num_batches
       THEN /\ pc' = "split"
            /\ batch_idx' = batch_idx + 1
            /\ UNCHANGED <<pending, error>>
       ELSE /\ batch_idx' = batch_idx
            /\ IF texts = <<>>
               THEN /\ pc' = "finally"
                    /\ pending' = "raised"
                    /\ error' = "AllBatchesFailed"
               ELSE /\ pc' = "banner"
                    /\ UNCHANGED <<pending, error>>

\* BatchFail with the retry ceiling off by one
BatchFail_OffByOne ==
    IF retry_attempt < max_retries
    THEN /\ retry_attempt' = retry_attempt + 1
         /\ pc' = "backoff"
         /\ elapsed' = 0
         /\ UNCHANGED <<batch_idx, pending, error, status, attempts>>
    ELSE /\ status' = [status EXCEPT ![batch_idx] = "FailedPermanently"]
         /\ LoopNext(all_texts)

\* BatchFail that leaves the batch loop at the first permanent failure
BatchFail_Abort ==
    IF retry_attempt < max_retries - 1
    THEN /\ retry_attempt' = retry_attempt + 1
         /\ pc' = "backoff"
         /\ elapsed' = 0
         /\ UNCHANGED <<batch_idx, pending, error, status, attempts>>
    ELSE /\ status' = [status EXCEPT ![batch_idx] = "FailedPermanently"]
         /\ retry_attempt' = 0 /\ attempts' = 0 /\ elapsed' = 0
         /\ batch_idx' = batch_idx
         /\ IF all_texts = <<>>
            THEN pc' = "finally" /\ pending' = "raised" /\ error' = "AllBatchesFailed"
            ELSE pc' = "banner" /\ UNCHANGED <<pending, error>>

\* BatchFail whose retry moves on to the next batch and leaves this one open
BatchFail_NextBatch ==
    IF retry_attempt < max_retries - 1
    THEN /\ IF batch_idx + 1 < num_batches
            THEN /\ pc' = "split"
                 /\ batch_idx' = batch_idx + 1
                 /\ retry_attempt' = 0
            ELSE /\ pc' = "backoff"
                 /\ batch_idx' = batch_idx
                 /\ retry_attempt' = retry_attempt + 1
         /\ elapsed' = 0
         /\ UNCHANGED <<pending, error, status, attempts>>
    ELSE /\ status' = [status EXCEPT ![batch_idx] = "FailedPermanently"]
         /\ LoopNext(all_texts)

\* the except clause of the retry loop, and the end of the retry loop
BatchFail ==
    IF retry_attempt < max_retries - 1
    THEN /\ retry_attempt' = retry_attempt + 1
         /\ pc' = "backoff"
         /\ elapsed' = 0
         /\ UNCHANGED <<batch_idx, pending, error, status, attempts>>
    ELSE /\ status' = [status EXCEPT ![batch_idx] = "FailedPermanently"]
         /\ LoopNext(all_texts)

\* AttemptFail whose whole-document call raises without the batch fallback
AttemptFail_NoFallback ==
    IF mode = "whole"
    THEN /\ pc' = "raised" /\ error' = "OcrError"
         /\ UNCHANGED <<batch_idx, retry_attempt, elapsed, pending, status, attempts>>
    ELSE BatchFail

\* an exception leaves extract(): the whole-document call falls back to the
\* batch loop when the page count is known, the batch loop retries
AttemptFail ==
    IF mode = "whole"
    THEN /\ IF page_count > 0
            THEN pc' = "batch_start" /\ error' = error
            ELSE pc' = "raised" /\ error' = "OcrError"
         /\ UNCHANGED <<batch_idx, retry_attempt, elapsed, pending, status, attempts>>
    ELSE BatchFail

\* SplitOk that sleeps retry_delay before the first attempt too
SplitOk_SleepFirst ==
    /\ pc = "split"
    /\ ranges' = Append(ranges, <<StartPage(batch_idx), EndPage(batch_idx)>>)
    /\ temp_files' = temp_files \cup {batch_idx}
    /\ IF max_retries > 0
       THEN /\ status' = [status EXCEPT ![batch_idx] = "Running"]
            /\ pc' = "backoff"
            /\ retry_attempt' = 0
            /\ attempts' = 0
            /\ elapsed' = 0
            /\ UNCHANGED <<batch_idx, pending, error>>
       ELSE /\ status' = [status EXCEPT ![batch_idx] = "FailedPermanently"]
            /\ LoopNext(all_texts)
    /\ UNCHANGED <<cfg, mode, num_batches>>
    /\ UNCHANGED <<ocr_extractor, all_texts, file_exists, file_content, temp_dir, result>>
    /\ UNCHANGED <<path, whole_calls, old_cleared, last_poll, saved, cancelled, read_failed, io_faults>>

\* the sub-document of the batch is written; the first attempt starts at once
SplitOk ==
    /\ pc = "split"
    /\ ranges' = Append(ranges, <<StartPage(batch_idx), EndPage(batch_idx)>>)
    /\ temp_files' = temp_files \cup {batch_idx}
    /\ IF max_retries > 0
       THEN /\ status' = [status EXCEPT ![batch_idx] = "Running"]
            /\ pc' = "submit"
            /\ retry_attempt' = 0
            /\ attempts' = 1
            /\ elapsed' = 0
            /\ UNCHANGED <<batch_idx, pending, error>>
       ELSE /\ status' = [status EXCEPT ![batch_idx] = "FailedPermanently"]
            /\ LoopNext(all_texts)
    /\ UNCHANGED <<cfg, mode, num_batches>>
    /\ UNCHANGED <<ocr_extractor, all_texts, file_exists, file_content, temp_dir, result>>
    /\ UNCHANGED <<path, whole_calls, old_cleared, last_poll, saved, cancelled, read_failed, io_faults>>

\* writing the sub-document fails: the exception leaves the function
SplitFail ==
    /\ pc = "split"
    /\ io_faults < MaxIoFaults
    /\ io_faults' = io_faults + 1
    /\ ranges' = Append(ranges, <<StartPage(batch_idx), EndPage(batch_idx)>>)
    /\ pc' = "finally"
    /\ pending' = "raised"
    /\ error' = "SplitError"
    /\ UNCHANGED <<cfg, mode, num_batches, batch_idx, retry_attempt, elapsed>>
    /\ UNCHANGED <<ocr_extractor, all_texts, file_exists, file_content, temp_dir, temp_files, result>>
    /\ UNCHANGED <<path, whole_calls, old_cleared, last_poll, status, attempts, saved, cancelled, read_failed>>

\* time.sleep(retry_delay) is over: the next attempt calls extract()
Backoff ==
    /\ pc = "backoff"
    /\ pc' = "submit"
    /\ attempts' = attempts + 1
    /\ UNCHANGED <<cfg, mode, num_batches, batch_idx, retry_attempt, elapsed, pending>>
    /\ UNCHANGED data
    /\ UNCHANGED <<path, whole_calls, old_cleared, last_poll, status, saved, ranges, cancelled, read_failed, io_faults>>

\* ------------------------------------------------ XunfeiOCR: one remote call
Rest == /\ UNCHANGED <<cfg, mode, num_batches>>
        /\ UNCHANGED <<ocr_extractor, all_texts, file_exists, file_content, temp_dir, temp_files, result>>
        /\ UNCHANGED <<path, whole_calls, old_cleared, saved, ranges, cancelled, read_failed, io_faults>>

\* SubmitOk whose wait of a retry starts before the backoff sleep
SubmitOk_SharedClock ==
    /\ pc = "submit"
    /\ pc' = "poll"
    /\ elapsed' = IF retry_attempt > 0 THEN check_interval ELSE 0
    /\ UNCHANGED <<batch_idx, retry_attempt, pending, error, status, attempts>>
    /\ last_poll' = "none"
    /\ Rest

\* start_ocr_task returns a task id
SubmitOk ==
    /\ pc = "submit"
    /\ pc' = "poll"
    /\ elapsed' = 0
    /\ UNCHANGED <<batch_idx, retry_attempt, pending, error, status, attempts>>
    /\ last_poll' = "none"
    /\ Rest

\* SubmitFail that the batch loop retries without counting the attempt
SubmitFail_FreeRetry ==
    /\ pc = "submit"
    /\ IF mode = "whole"
       THEN AttemptFail
       ELSE /\ pc' = "backoff"
            /\ UNCHANGED <<batch_idx, retry_attempt, elapsed, pending, error, status, attempts>>
    /\ last_poll' = "none"
    /\ Rest

\* start_ocr_task raises (service error or network error)
SubmitFail ==
    /\ pc = "submit"
    /\ AttemptFail
    /\ last_poll' = "none"
    /\ Rest

\* PollTimeout that restarts the wait instead of raising
PollTimeout_Repoll ==
    /\ pc = "poll"
    /\ elapsed > max_wait_time
    /\ elapsed' = 0
    /\ UNCHANGED <<pc, batch_idx, retry_attempt, pending, error, status, attempts>>
    /\ last_poll' = "none"
    /\ Rest

\* the polling loop finds the wait over max_wait_time
PollTimeout ==
    /\ pc = "poll"
    /\ elapsed > max_wait_time
    /\ AttemptFail
    /\ last_poll' = "none"
    /\ Rest

\* status 2 or an unknown status: sleep and poll again
PollWait ==
    /\ pc = "poll"
    /\ ~(elapsed > max_wait_time)
    /\ elapsed' = elapsed + check_interval
    /\ UNCHANGED <<pc, batch_idx, retry_attempt, pending, error, status, attempts>>
    /\ last_poll' = "processing"
    /\ Rest

\* PollNetworkError that lets the exception leave the polling loop
PollNetworkError_EndsAttempt ==
    /\ pc = "poll"
    /\ ~(elapsed > max_wait_time)
    /\ AttemptFail
    /\ last_poll' = "neterr"
    /\ Rest

\* requests.RequestException on the query: sleep and poll again
PollNetworkError ==
    /\ pc = "poll"
    /\ ~(elapsed > max_wait_time)
    /\ elapsed' = elapsed + check_interval
    /\ UNCHANGED <<pc, batch_idx, retry_attempt, pending, error, status, attempts>>
    /\ last_poll' = "neterr"
    /\ Rest

\* status 3: the download starts
PollDone ==
    /\ pc = "poll"
    /\ ~(elapsed > max_wait_time)
    /\ pc' = "fetch"
    /\ UNCHANGED <<batch_idx, retry_attempt, elapsed, pending, error, status, attempts>>
    /\ last_poll' = "none"
    /\ Rest

\* status 4, or a query answered with an error code
PollFailed ==
    /\ pc = "poll"
    /\ ~(elapsed > max_wait_time)
    /\ AttemptFail
    /\ last_poll' = "none"
    /\ Rest

\* FetchFail that goes back to polling and downloads again
FetchFail_Refetch ==
    /\ pc = "fetch"
    /\ pc' = "poll"
    /\ UNCHANGED <<batch_idx, retry_attempt, elapsed, pending, error, status, attempts>>
    /\ last_poll' = "none"
    /\ Rest

\* the download fails
FetchFail ==
    /\ pc = "fetch"
    /\ AttemptFail
    /\ last_poll' = "none"
    /\ Rest

\* FetchEmpty that hands the blank text on as the text of the batch
FetchEmpty_Accepted ==
    /\ pc = "fetch"
    /\ IF mode = "whole"
       THEN /\ result' = <<WholeText>>
            /\ pc' = "done"
            /\ UNCHANGED all_texts
       ELSE /\ all_texts' = Append(all_texts, MarkedText(batch_idx))
            /\ pc' = "save"
            /\ UNCHANGED result
    /\ last_poll' = "blank"
    /\ UNCHANGED <<cfg, mode, num_batches, batch_idx, retry_attempt, elapsed, pending>>
    /\ UNCHANGED <<ocr_extractor, file_exists, file_content, temp_dir, temp_files, error>>
    /\ UNCHANGED <<path, whole_calls, old_cleared, status, attempts, saved, ranges, cancelled, read_failed, io_faults>>

\* the downloaded text is empty or blank: extract() raises
FetchEmpty ==
    /\ pc = "fetch"
    /\ AttemptFail
    /\ last_poll' = "blank"
    /\ Rest

\* extract() returns one text; the batch loop marks it and keeps it in memory
FetchOk ==
    /\ pc = "fetch"
    /\ IF mode = "whole"
       THEN /\ result' = <<WholeText>>
            /\ pc' = "done"
            /\ UNCHANGED all_texts
       ELSE /\ all_texts' = Append(all_texts, MarkedText(batch_idx))
            /\ pc' = "save"
            /\ UNCHANGED result
    /\ UNCHANGED <<cfg, mode, num_batches, batch_idx, retry_attempt, elapsed, pending>>
    /\ UNCHANGED <<ocr_extractor, file_exists, file_content, temp_dir, temp_files, error>>
    /\ UNCHANGED obs

\* Cancel caught by the retry loop like any other exception
Cancel_Retried ==
    /\ pc \in {"submit", "poll", "fetch", "backoff"}
    /\ cancelled' = TRUE
    /\ last_poll' = "none"
    /\ AttemptFail
    /\ UNCHANGED <<cfg, mode, num_batches>>
    /\ UNCHANGED <<ocr_extractor, all_texts, file_exists, file_content, temp_dir, temp_files, result>>
    /\ UNCHANGED <<path, whole_calls, old_cleared, saved, ranges, read_failed, io_faults>>

\* KeyboardInterrupt during the remote call or the backoff sleep
Cancel ==
    /\ pc \in {"submit", "poll", "fetch", "backoff"}
    /\ cancelled' = TRUE
    /\ last_poll' = "none"
    /\ error' = "KeyboardInterrupt"
    /\ IF mode = "whole"
       THEN pc' = "cancelled" /\ pending' = pending
       ELSE pc' = "finally" /\ pending' = "cancelled"
    /\ UNCHANGED <<cfg, mode, num_batches, batch_idx, retry_attempt, elapsed>>
    /\ UNCHANGED <<ocr_extractor, all_texts, file_exists, file_content, temp_dir, temp_files, result>>
    /\ UNCHANGED <<path, whole_calls, old_cleared, status, attempts, saved, ranges, read_failed, io_faults>>

\* ------------------------------------- after a successful remote call
\* SaveOk that opens the result file for writing instead of appending
SaveOk_Truncate ==
    /\ pc = "save"
    /\ file_exists' = TRUE
    /\ file_content' = (IF batch_idx = 0 THEN <<FileHeader>> ELSE <<>>)
                       \o <<SectionLabel(batch_idx)>>
                       \o <<MarkedText(batch_idx)>>
    /\ saved' = saved \cup {batch_idx}
    /\ pc' = "unlink"
    /\ UNCHANGED <<cfg, mode, num_batches, batch_idx, retry_attempt, elapsed, pending>>
    /\ UNCHANGED <<ocr_extractor, all_texts, temp_dir, temp_files, result, error>>
    /\ UNCHANGED <<path, whole_calls, old_cleared, last_poll, status, attempts, ranges, cancelled, read_failed, io_faults>>

\* the section of the batch is appended to the result file and flushed
SaveOk ==
    /\ pc = "save"
    /\ file_exists' = TRUE
    /\ file_content' = file_content
                       \o (IF batch_idx = 0 THEN <<FileHeader>> ELSE <<>>)
                       \o <<SectionLabel(batch_idx)>>
                       \o <<MarkedText(batch_idx)>>
    /\ saved' = saved \cup {batch_idx}
    /\ pc' = "unlink"
    /\ UNCHANGED <<cfg, mode, num_batches, batch_idx, retry_attempt, elapsed, pending>>
    /\ UNCHANGED <<ocr_extractor, all_texts, temp_dir, temp_files, result, error>>
    /\ UNCHANGED <<path, whole_calls, old_cleared, last_poll, status, attempts, ranges, cancelled, read_failed, io_faults>>

\* SaveFail whose error reaches the except clause of the retry loop
SaveFail_Raises ==
    /\ pc = "save"
    /\ io_faults < MaxIoFaults
    /\ io_faults' = io_faults + 1
    /\ BatchFail
    /\ UNCHANGED <<cfg, mode, num_batches>>
    /\ UNCHANGED <<ocr_extractor, all_texts, file_exists, file_content, temp_dir, temp_files, result>>
    /\ UNCHANGED <<path, whole_calls, old_cleared, last_poll, saved, ranges, cancelled, read_failed>>

\* the append fails: a warning, nothing else
SaveFail ==
    /\ pc = "save"
    /\ io_faults < MaxIoFaults
    /\ io_faults' = io_faults + 1
    /\ pc' = "unlink"
    /\ UNCHANGED <<cfg, mode, num_batches, batch_idx, retry_attempt, elapsed, pending>>
    /\ UNCHANGED data
    /\ UNCHANGED <<path, whole_calls, old_cleared, last_poll, status, attempts, saved, ranges, cancelled, read_failed>>

\* UnlinkOk without the break that leaves the retry loop
UnlinkOk_NoBreak ==
    /\ pc = "unlink"
    /\ temp_files' = temp_files \ {batch_idx}
    /\ status' = [status EXCEPT ![batch_idx] = "Succeeded"]
    /\ IF retry_attempt < max_retries - 1
       THEN /\ retry_attempt' = retry_attempt + 1
            /\ pc' = "backoff"
            /\ elapsed' = 0
            /\ UNCHANGED <<batch_idx, pending, error, attempts>>
       ELSE LoopNext(all_texts)
    /\ UNCHANGED <<cfg, mode, num_batches>>
    /\ UNCHANGED <<ocr_extractor, all_texts, file_exists, file_content, temp_dir, result>>
    /\ UNCHANGED <<path, whole_calls, old_cleared, last_poll, saved, ranges, cancelled, read_failed, io_faults>>

\* the sub-document is deleted, batch_success = True, next batch
UnlinkOk ==
    /\ pc = "unlink"
    /\ temp_files' = temp_files \ {batch_idx}
    /\ status' = [status EXCEPT ![batch_idx] = "Succeeded"]
    /\ LoopNext(all_texts)
    /\ UNCHANGED <<cfg, mode, num_batches>>
    /\ UNCHANGED <<ocr_extractor, all_texts, file_exists, file_content, temp_dir, result>>
    /\ UNCHANGED <<path, whole_calls, old_cleared, last_poll, saved, ranges, cancelled, read_failed, io_faults>>

\* deleting the sub-document raises inside the try block of the attempt
UnlinkFail ==
    /\ pc = "unlink"
    /\ io_faults < MaxIoFaults
    /\ io_faults' = io_faults + 1
    /\ BatchFail
    /\ UNCHANGED <<cfg, mode, num_batches>>
    /\ UNCHANGED <<ocr_extractor, all_texts, file_exists, file_content, temp_dir, temp_files, result>>
    /\ UNCHANGED <<path, whole_calls, old_cleared, last_poll, saved, ranges, cancelled, read_failed>>

\* ------------------------------------------------------- after the loop
\* the completion banner is appended
BannerOk ==
    /\ pc = "banner"
    /\ file_exists' = TRUE
    /\ file_content' = Append(file_content, Banner)
    /\ pc' = "read"
    /\ UNCHANGED <<cfg, mode, num_batches, batch_idx, retry_attempt, elapsed, pending>>
    /\ UNCHANGED <<ocr_extractor, all_texts, temp_dir, temp_files, result, error>>
    /\ UNCHANGED obs

\* writing the banner fails: a warning, nothing else
BannerFail ==
    /\ pc = "banner"
    /\ io_faults < MaxIoFaults
    /\ io_faults' = io_faults + 1
    /\ pc' = "read"
    /\ UNCHANGED <<cfg, mode, num_batches, batch_idx, retry_attempt, elapsed, pending>>
    /\ UNCHANGED data
    /\ UNCHANGED <<path, whole_calls, old_cleared, last_poll, status, attempts, saved, ranges, cancelled, read_failed>>

\* ReadOk that returns the combined in-memory texts
ReadOk_FromMemory ==
    /\ pc = "read"
    /\ file_exists
    /\ result' = CombinedText
    /\ pc' = "finally"
    /\ pending' = "done"
    /\ UNCHANGED <<cfg, mode, num_batches, batch_idx, retry_attempt, elapsed>>
    /\ UNCHANGED <<ocr_extractor, all_texts, file_exists, file_content, temp_dir, temp_files, error>>
    /\ UNCHANGED obs

\* the result file is read back and returned
ReadOk ==
    /\ pc = "read"
    /\ file_exists
    /\ result' = file_content
    /\ pc' = "finally"
    /\ pending' = "done"
    /\ UNCHANGED <<cfg, mode, num_batches, batch_idx, retry_attempt, elapsed>>
    /\ UNCHANGED <<ocr_extractor, all_texts, file_exists, file_content, temp_dir, temp_files, error>>
    /\ UNCHANGED obs

\* the read-back fails: the in-memory texts are combined and returned
ReadFail ==
    /\ pc = "read"
    /\ \/ ~file_exists /\ io_faults' = io_faults
       \/ io_faults < MaxIoFaults /\ io_faults' = io_faults + 1
    /\ read_failed' = TRUE
    /\ result' = CombinedText
    /\ pc' = "finally"
    /\ pending' = "done"
    /\ UNCHANGED <<cfg, mode, num_batches, batch_idx, retry_attempt, elapsed>>
    /\ UNCHANGED <<ocr_extractor, all_texts, file_exists, file_content, temp_dir, temp_files, error>>
    /\ UNCHANGED <<path, whole_calls, old_cleared, last_poll, status, attempts, saved, ranges, cancelled>>

\* FinallyOk that removes the result file with the temporary files
FinallyOk_RemovesStore ==
    /\ pc = "finally"
    /\ temp_dir' = FALSE
    /\ temp_files' = {}
    /\ file_exists' = FALSE
    /\ file_content' = <<>>
    /\ pc' = pending
    /\ UNCHANGED <<cfg, mode, num_batches, batch_idx, retry_attempt, elapsed, pending>>
    /\ UNCHANGED <<ocr_extractor, all_texts, result, error>>
    /\ UNCHANGED obs

\* the finally clause removes the temporary directory, then the job ends
FinallyOk ==
    /\ pc = "finally"
    /\ temp_dir' = FALSE
    /\ temp_files' = {}
    /\ pc' = pending
    /\ UNCHANGED <<cfg, mode, num_batches, batch_idx, retry_attempt, elapsed, pending>>
    /\ UNCHANGED <<ocr_extractor, all_texts, file_exists, file_content, result, error>>
    /\ UNCHANGED obs

\* shutil.rmtree fails: a warning, the directory stays
FinallyFail ==
    /\ pc = "finally"
    /\ io_faults < MaxIoFaults
    /\ io_faults' = io_faults + 1
    /\ pc' = pending
    /\ UNCHANGED <<cfg, mode, num_batches, batch_idx, retry_attempt, elapsed, pending>>
    /\ UNCHANGED data
    /\ UNCHANGED <<path, whole_calls, old_cleared, last_poll, status, attempts, saved, ranges, cancelled, read_failed>>

\* ------------------------------------------------------- specifications
Next ==
    \/ EnsureOcrOk \/ EnsureOcrFail \/ Decide \/ BatchStart \/ BatchStartFail
    \/ SplitOk \/ SplitFail \/ Backoff
    \/ SubmitOk \/ SubmitFail
    \/ PollTimeout \/ PollWait \/ PollNetworkError \/ PollDone \/ PollFailed
    \/ FetchFail \/ FetchEmpty \/ FetchOk
    \/ Cancel
    \/ SaveOk \/ SaveFail \/ UnlinkOk \/ UnlinkFail
    \/ BannerOk \/ BannerFail \/ ReadOk \/ ReadFail
    \/ FinallyOk \/ FinallyFail

Spec == Init /\ [][Next]_vars

\* the planner alone: every document and every configuration, up to the decision
InitPlan ==
    /\ page_count \in 0..MaxPages
    /\ unreadable = {}
    /\ file_size_mb \in 0..MaxSizeMb
    /\ batch_enabled \in BOOLEAN
    /\ batch_threshold_pages \in 0..MaxThreshold
    /\ batch_threshold_mb \in 0..MaxThreshold
    /\ batch_size \in 1..MaxBatchSize
    /\ max_retries = MaxRetries
    /\ InitJob

NextPlan == EnsureOcrOk \/ EnsureOcrFail \/ Decide

SpecPlan == InitPlan /\ [][NextPlan]_vars

\* jobs configured with a batch size that is not positive
InitBadPlan ==
    /\ page_count \in 0..MaxPages
    /\ unreadable = {}
    /\ file_size_mb \in {0, MaxSizeMb}
    /\ batch_enabled \in BOOLEAN
    /\ batch_threshold_pages = ThresholdPages
    /\ batch_threshold_mb = ThresholdMb
    /\ batch_size \in (0 - MaxBadBatchSize)..0
    /\ max_retries \in 0..MaxRetries
    /\ InitJob

SpecBadPlan == InitBadPlan /\ [][Next]_vars

\* batched jobs on documents some of whose pages cannot be copied
InitCopy ==
    /\ page_count \in 1..MaxPages
    /\ unreadable \in SUBSET (0..(page_count - 1))
    /\ file_size_mb = MaxSizeMb
    /\ batch_enabled = TRUE
    /\ batch_threshold_pages = ThresholdPages
    /\ batch_threshold_mb = ThresholdMb
    /\ batch_size \in 1..MaxBatchSize
    /\ max_retries = MaxRetries
    /\ InitJob

SpecCopy == InitCopy /\ [][Next]_vars

\* the process keeps running: a job that can take a step takes one
FairSpec == Spec /\ WF_vars(Next)

\* ----------------------------------------------------------------- claims
Batches == 0..(num_batches - 1)
InBatchJob == mode = "batch"
IsPrefix(s, t) == Len(s) <= Len(t) /\ SubSeq(t, 1, Len(s)) = s
\* the batch numbers of the items of one kind in a text, in order
BatchesOf(text, kind) ==
    LET sel == SelectSeq(text, LAMBDA it : it.kind = kind)
    IN  [k \in 1..Len(sel) |-> sel[k].a - 1]
Count(seq, x) == Cardinality({k \in 1..Len(seq) : seq[k] = x})
NonDecreasing(seq) == \A k \in 1..(Len(seq) - 1) : seq[k] <= seq[k + 1]
Increasing(seq) == \A k \in 1..(Len(seq) - 1) : seq[k] < seq[k + 1]
StatusOf(i) == IF i \in DOMAIN status THEN status[i] ELSE "None"
BecomesFailed(i) ==
    /\ i \in DOMAIN status /\ i \in DOMAIN status'
    /\ status[i] # "FailedPermanently"
    /\ status'[i] = "FailedPermanently"

\* C1: no batch ever makes more than max_retries attempts, and a batch becomes
\* FailedPermanently only when it has made exactly max_retries attempts.
C1_RetryBound ==
    [][ /\ attempts' <= max_retries
        /\ \A i \in 0..MaxPages : BecomesFailed(i) => attempts = max_retries ]_vars
\* a batch has failed permanently after more than one attempt
C1_Witness ==
    /\ InBatchJob /\ max_retries >= 2
    /\ \E i \in Batches : status[i] = "FailedPermanently"

\* C2: whenever a batch that is not the last one is FailedPermanently and the
\* batch after it is still Pending, that next batch is eventually started (it
\* leaves Pending), unless writing its sub-document fails and ends the job.
C2_NextBatchAttempted ==
    (\E i \in 0..MaxPages : /\ i + 1 < num_batches
                            /\ StatusOf(i) = "FailedPermanently"
                            /\ StatusOf(i + 1) = "Pending")
        ~> (\/ error = "SplitError"
            \/ \A i \in 0..MaxPages :
                  (i + 1 < num_batches /\ StatusOf(i) = "FailedPermanently")
                      => StatusOf(i + 1) \in {"Running", "Succeeded", "FailedPermanently"})
\* the batch after a permanently failed one is running
C2_Witness ==
    /\ InBatchJob /\ max_retries >= 1
    /\ \E i \in Batches : /\ i + 1 < num_batches
                          /\ status[i] = "FailedPermanently"
                          /\ status[i + 1] = "Running"

C4_AllFailedFatal ==
    (InBatchJob /\ num_batches > 0 /\ \A i \in Batches : status[i] = "FailedPermanently")
        => /\ pc \in {"finally", "raised"}
           /\ error = "AllBatchesFailed"
           /\ result = <<>>
           /\ \A k \in 1..Len(file_content) : file_content[k].kind # "banner"

\* C5: the step that raises the cancellation leaves the retry loop and the
\* batch loop (no retry is counted, no batch changes status), and after it
\* nothing runs but the removal of the temporary directory.
C5_CancelHalts ==
    [][ /\ (cancelled' /\ ~cancelled) =>
              /\ pc' \in {"finally", "cancelled"}
              /\ UNCHANGED <<batch_idx, retry_attempt, attempts, status>>
        /\ cancelled =>
              /\ pc = "finally" /\ pc' = "cancelled" /\ cancelled'
              /\ error' = "KeyboardInterrupt"
              /\ UNCHANGED <<batch_idx, retry_attempt, attempts, status, elapsed,
                             all_texts, file_exists, file_content, result, saved>> ]_vars
\* a retry of the second batch was cancelled
C5_Witness ==
    /\ pc = "cancelled" /\ cancelled /\ InBatchJob
    /\ batch_idx = 1 /\ retry_attempt >= 1

\* C6: the batched path is selected exactly when batching is enabled, the
\* page count is known (P > 0) and P or the size exceeds its threshold; in
\* every other case the whole-document path is selected.
C6_DecisionRule ==
    path # "none" =>
        /\ path \in {"batched", "whole"}
        /\ path = "batched" <=>
              (/\ batch_enabled = TRUE
               /\ page_count > 0
               /\ (page_count > batch_threshold_pages \/ file_size_mb > batch_threshold_mb))
        /\ path = "batched" => pc = "batch_start"
        /\ path = "whole" => mode = "whole"
\* page count unknown and the size over its threshold: whole-document path
C6_Witness ==
    /\ path = "whole" /\ batch_enabled /\ page_count = 0
    /\ file_size_mb > batch_threshold_mb

\* C7: the loop plans ceil(P / batch_size) batches, batch i covering
\* [i*batch_size, min((i+1)*batch_size, P)); the ranges are non-empty,
\* contiguous from 0 and, once the loop is over, cover [0, P) exactly once.
C7_BatchPlan ==
    InBatchJob =>
        /\ total_pages > 0 /\ batch_size > 0
        /\ num_batches * batch_size >= total_pages
        /\ (num_batches - 1) * batch_size < total_pages
        /\ Len(ranges) <= num_batches
        /\ pc \notin {"split", "finally", "raised", "cancelled"} => Len(ranges) = batch_idx + 1
        /\ pc \in {"banner", "read", "done"} => Len(ranges) = num_batches
        /\ \A k \in 1..Len(ranges) :
              /\ ranges[k][1] = (k - 1) * batch_size
              /\ ranges[k][2] = IF k * batch_size < total_pages
                                THEN k * batch_size ELSE total_pages
              /\ ranges[k][1] < ranges[k][2]
              /\ k = 1 => ranges[k][1] = 0
              /\ k > 1 => ranges[k][1] = ranges[k - 1][2]
        /\ Len(ranges) = num_batches =>
              \A page \in 0..(total_pages - 1) :
                  Cardinality({k \in 1..Len(ranges) :
                                  ranges[k][1] <= page /\ page < ranges[k][2]}) = 1
\* all batches of a document whose last batch is short have been planned
C7_Witness ==
    /\ InBatchJob /\ num_batches >= 2 /\ Len(ranges) = num_batches
    /\ ranges[num_batches][2] - ranges[num_batches][1] < batch_size

\* C8: the text a completed batched job returns holds exactly one section for
\* each Succeeded batch and none for a FailedPermanently batch, in strictly
\* ascending batch order, each labelled with its batch's page range.
C8_FinalSections ==
    (pc = "done" /\ InBatchJob) =>
        LET secs == BatchesOf(result, "text")
        IN  /\ \A i \in Batches :
                  Count(secs, i) = IF status[i] = "Succeeded" THEN 1 ELSE 0
            /\ Increasing(secs)
            /\ \A k \in 1..Len(result) :
                  result[k].kind = "text" =>
                      /\ result[k].b = (result[k].a - 1) * batch_size + 1
                      /\ result[k].c = Min(result[k].a * batch_size, total_pages)

C10_ExactlyOnce ==
    [][ /\ InBatchJob' =>
              \A i \in Batches' :
                  /\ Count(BatchesOf(file_content', "text"), i) <= 1
                  /\ Count(BatchesOf(all_texts', "text"), i) <= 1
                  /\ status'[i] = "Succeeded" =>
                        /\ Count(BatchesOf(file_content', "text"), i) = 1
                        /\ Count(BatchesOf(all_texts', "text"), i) = 1
        /\ InBatchJob =>
              /\ IsPrefix(file_content, file_content')
              /\ IsPrefix(all_texts, all_texts') ]_vars

Succeeded == {i \in Batches : status[i] = "Succeeded"}
FailedPermanently == {i \in Batches : status[i] = "FailedPermanently"}
AllResolved == Batches = Succeeded \cup FailedPermanently
KindsOf(text) == {text[k].kind : k \in 1..Len(text)}

\* C11: when a batched job completes normally every planned batch is either
\* Succeeded or FailedPermanently, the two sets together count
\* ceil(P / batch_size) batches, and the number of successes the job reports
\* is the number of Succeeded batches.
C11_OutcomeCounts ==
    (pc = "done" /\ InBatchJob) =>
        /\ AllResolved
        /\ Succeeded \cap FailedPermanently = {}
        /\ Cardinality(Succeeded) + Cardinality(FailedPermanently) = num_batches
        /\ num_batches * batch_size >= total_pages
        /\ (num_batches - 1) * batch_size < total_pages
        /\ ReportedSuccesses = Cardinality(Succeeded)

C13_OnlyFatalErrors ==
    (InBatchJob /\ error # "none")
        => error \in {"InvalidPlan", "AllBatchesFailed", "KeyboardInterrupt"}

\* C14 as stated: on the whole-document path there is exactly one call on the
\* whole document, no split, no temporary directory, no batch plan, and the
\* result file is neither cleared nor written, whether the call succeeds or
\* fails.
C14_Original ==
    path = "whole" =>
        /\ whole_calls = 1
        /\ mode = "whole"
        /\ ranges = <<>> /\ num_batches = 0 /\ ~temp_dir /\ ~old_cleared
        /\ file_content = IF file_exists THEN <<OldItem>> ELSE <<>>
\* C14 amended: on the whole-document path exactly one call is made on the
\* whole document, and until that call has failed nothing is split and the
\* result file, the temporary directory and the batch plan are left alone;
\* only a failed call on a document of known page count (P > 0) hands the
\* job to batch processing, and with P = 0 the failure is raised.
C14_WholePath ==
    [][ /\ path' = "whole" => whole_calls' = 1
        /\ (path' = "whole" /\ mode' = "whole") =>
              /\ UNCHANGED <<file_exists, file_content, temp_dir, temp_files>>
              /\ UNCHANGED <<ranges, num_batches, status, all_texts, old_cleared>>
              /\ ranges' = <<>> /\ num_batches' = 0
        /\ (path = "whole" /\ pc # "batch_start" /\ pc' = "batch_start") =>
              page_count > 0 /\ pc \in {"submit", "poll", "fetch"}
        /\ (path = "whole" /\ mode = "whole" /\ mode' = "batch") => pc = "batch_start"
        /\ (path = "whole" /\ page_count = 0) => mode' = "whole" ]_vars
\* the call on a document of unknown page count failed next to an old result file
C14_Witness ==
    /\ path = "whole" /\ pc = "raised" /\ page_count = 0 /\ whole_calls = 1
    /\ file_exists /\ file_content = <<OldItem>>

\* C15 as stated: with batching enabled the whole-document path is chosen
\* exactly when P <= threshold_pages and S <= threshold_size, for every P >= 0;
\* with batching disabled it is always chosen.
C15_Original ==
    path # "none" =>
        IF batch_enabled
        THEN path = "whole" <=> (/\ page_count <= batch_threshold_pages
                                 /\ file_size_mb <= batch_threshold_mb)
        ELSE path = "whole"
\* C15 amended: with batching enabled and P > 0 the whole-document path is
\* chosen exactly when P <= threshold_pages and S <= threshold_size; with
\* P = 0 or batching disabled it is always chosen.
C15_WholeRule ==
    path # "none" =>
        path = "whole" <=> \/ ~batch_enabled
                           \/ page_count = 0
                           \/ /\ page_count <= batch_threshold_pages
                              /\ file_size_mb <= batch_threshold_mb
\* a document exactly at both thresholds goes the whole-document path
C15_Witness ==
    /\ path = "whole" /\ batch_enabled /\ page_count > 0
    /\ page_count = batch_threshold_pages /\ file_size_mb = batch_threshold_mb

\* C16: a job whose batch_size is not positive fails with InvalidPlan before
\* any remote call: no call on the whole document, no call for a batch, no
\* text returned.
C16_InvalidPlanFatal ==
    (batch_size <= 0 /\ path # "none") =>
        /\ whole_calls = 0 /\ attempts = 0 /\ ranges = <<>>
        /\ pc \in {"raised"} /\ error = "InvalidPlan"
        /\ result = <<>>

\* C17: after a cancellation the result file holds exactly the complete
\* sections of the batches that were Succeeded, in order, and the step that
\* cancels and the steps after it leave the file as it was.
C17_CancelKeepsStore ==
    [][ /\ (InBatchJob /\ (cancelled \/ cancelled')) =>
              UNCHANGED <<file_exists, file_content>>
        /\ (InBatchJob' /\ cancelled') =>
              /\ \A i \in Batches' :
                    Count(BatchesOf(file_content', "text"), i)
                        = IF status'[i] = "Succeeded" THEN 1 ELSE 0
              /\ Increasing(BatchesOf(file_content', "text")) ]_vars

\* C18: the result file carries the banner exactly when the batched job has
\* finished normally: never while batches are processed nor after a
\* cancellation, at most once, as its last item, and with the number of
\* Succeeded batches as its success count.
C18_BannerIffDone ==
    InBatchJob =>
        LET banners == SelectSeq(file_content, LAMBDA it : it.kind = "banner")
        IN  /\ Len(banners) <= 1
            /\ Len(banners) = 1 <=> (pc \in {"read", "finally", "done"} /\ pending \in {"none", "done"}
                                     /\ ~cancelled /\ error = "none" /\ AllResolved)
            /\ Len(banners) = 1 =>
                  /\ file_content[Len(file_content)].kind = "banner"
                  /\ banners[1].a = Cardinality(Succeeded)
                  /\ banners[1].b = total_pages

\* C19: whenever the result file holds a batch section it begins with the
\* header (total pages, batch size) and holds the header once, whichever
\* batch was the first to succeed.
C19_HeaderOnce ==
    (InBatchJob /\ "text" \in KindsOf(file_content)) =>
        /\ file_content[1] = FileHeader
        /\ Cardinality({k \in 1..Len(file_content) : file_content[k].kind = "header"}) = 1

\* C20: a batched job deletes the result file an earlier run left before it
\* plans or attempts a batch, so the file, the in-memory texts and the text
\* returned never hold anything of the earlier run.
C20_OldStoreCleared ==
    (InBatchJob \/ ranges # <<>> \/ num_batches # 0 \/ temp_dir) =>
        /\ InBatchJob
        /\ "old" \notin KindsOf(file_content)
        /\ "old" \notin KindsOf(result)
        /\ "old" \notin KindsOf(all_texts)
        /\ file_exists <=> file_content # <<>>
\* a job that found and deleted an old result file has returned its own text
C20_Witness ==
    /\ pc = "done" /\ InBatchJob /\ old_cleared
    /\ result # <<>> /\ result = file_content

Terminal == {"Succeeded", "FailedPermanently"}
BecomesSucceeded(i) ==
    /\ i \in DOMAIN status /\ i \in DOMAIN status'
    /\ status[i] # "Succeeded"
    /\ status'[i] = "Succeeded"
\* the step ends the running attempt of the batch as a failed attempt: a retry
\* is scheduled, or it was the last attempt and the batch fails for good
AttemptConsumed ==
    \/ /\ retry_attempt + 1 < max_retries
       /\ retry_attempt' = retry_attempt + 1
       /\ batch_idx' = batch_idx
       /\ pc' = "backoff"
       /\ status' = status
    \/ /\ retry_attempt + 1 = max_retries
       /\ BecomesFailed(batch_idx)
       /\ pc' \in {"split", "banner", "finally"}
\* the step ends the running remote call as a failure
AttemptFailedStep ==
    IF mode = "whole" THEN pc' \in {"batch_start", "raised"} ELSE AttemptConsumed

\* C21: batches run one after the other in ascending order: at most one batch
\* is Running, it is the batch of the loop index, every batch before it is
\* Succeeded or FailedPermanently and every batch after it is Pending.
C21_Sequential ==
    InBatchJob =>
        /\ Cardinality({i \in Batches : status[i] = "Running"}) <= 1
        /\ \A i \in Batches :
              /\ status[i] = "Running" => i = batch_idx
              /\ i < batch_idx => status[i] \in Terminal
              /\ i > batch_idx => status[i] = "Pending"
\* the second of three batches is running
C21_Witness ==
    /\ InBatchJob /\ num_batches >= 3
    /\ status[0] \in Terminal /\ status[1] = "Running" /\ status[2] = "Pending"

\* C22: when no page of a batch's range can be copied the split fails with
\* EmptyBatch: the empty sub-document is not submitted and the batch counts
\* one failed attempt, the job goes on.
C22_EmptyBatch ==
    [][ (InBatchJob /\ pc = "split" /\ Copied(batch_idx) = 0) =>
            /\ pc' \notin {"submit", "poll", "fetch"}
            /\ AttemptConsumed ]_vars

\* C23: a batch whose attempt k succeeds is Succeeded after exactly k attempts,
\* its section is in the result file and in the returned text once, and no
\* attempt is made for the batch after the one that delivered its text.
C23_SucceedsOnRetry ==
    [][ /\ (InBatchJob' /\ pc' \in {"backoff", "submit", "poll", "fetch"}) =>
              Count(BatchesOf(all_texts', "text"), batch_idx') = 0
        /\ \A i \in 0..MaxPages :
              BecomesSucceeded(i) =>
                  /\ attempts = retry_attempt + 1 /\ attempts <= max_retries
                  /\ Count(BatchesOf(file_content', "text"), i) = 1
                  /\ Count(BatchesOf(all_texts', "text"), i) = 1
        /\ (InBatchJob' /\ pc' = "done") =>
              \A i \in Batches' :
                  status'[i] = "Succeeded" => Count(BatchesOf(result', "text"), i) = 1 ]_vars

\* C24 as stated: a batch moves only Pending -> Running -> Succeeded or
\* Pending -> Running -> FailedPermanently, is Running at every attempt and
\* every retry, and a terminal status never changes.
C24_Original ==
    [][ (InBatchJob /\ InBatchJob') =>
            /\ \A i \in Batches :
                  status'[i] # status[i] =>
                      <<status[i], status'[i]>> \in
                          {<<"Pending", "Running">>, <<"Running", "Succeeded">>,
                           <<"Running", "FailedPermanently">>}
            /\ pc' \in {"backoff", "submit", "poll", "fetch"}
                  => status'[batch_idx'] = "Running" ]_vars
\* C24 amended: as stated, except that with max_retries = 0 no attempt is
\* made and the batch goes from Pending to FailedPermanently directly.
C24_StatusMoves ==
    [][ (InBatchJob /\ InBatchJob') =>
            /\ \A i \in Batches :
                  status'[i] # status[i] =>
                      \/ <<status[i], status'[i]>> \in
                            {<<"Pending", "Running">>, <<"Running", "Succeeded">>,
                             <<"Running", "FailedPermanently">>}
                      \/ /\ max_retries = 0
                         /\ <<status[i], status'[i]>> = <<"Pending", "FailedPermanently">>
            /\ pc' \in {"backoff", "submit", "poll", "fetch"}
                  => status'[batch_idx'] = "Running" ]_vars
\* the third batch waits for its retry after one batch succeeded and one failed
C24_Witness ==
    /\ InBatchJob /\ num_batches >= 3 /\ pc = "backoff"
    /\ status[0] = "Succeeded" /\ status[1] = "FailedPermanently"
    /\ status[2] = "Running"

\* C25: a network error on a status query keeps the attempt going: the loop
\* sleeps check_interval and queries again, no retry is counted and no status
\* changes; the polling leaves the loop only for the download (Done), for a
\* failed attempt (task failed, query error, timeout) or for the cancellation.
C25_PollErrorTolerated ==
    [][ /\ last_poll' = "neterr" => pc = "poll"
        /\ (pc = "poll" /\ last_poll' = "neterr") =>
              /\ pc' = "poll"
              /\ elapsed' = elapsed + check_interval
              /\ UNCHANGED <<batch_idx, retry_attempt, attempts, status, error, pending>>
        /\ (pc = "poll" /\ pc' # "poll") =>
              \/ pc' = "fetch" /\ UNCHANGED <<batch_idx, retry_attempt, attempts, status>>
              \/ cancelled'
              \/ AttemptFailedStep ]_vars
\* the first attempt of a batch has met two network errors and still polls
C25_Witness ==
    /\ InBatchJob /\ pc = "poll" /\ last_poll = "neterr"
    /\ elapsed = 2 * check_interval /\ attempts = 1 /\ retry_attempt = 0

\* C26: every polling loop ends: the wait never passes max_wait_time by more
\* than one check interval, once it exceeds max_wait_time the next step of
\* the job is the timeout (no further query, no download), the timeout counts
\* one failed attempt, and a job that polls eventually stops polling.
C26_PollingTerminates ==
    /\ [][ (pc = "poll" /\ elapsed > max_wait_time) =>
               /\ pc' \notin {"poll", "fetch", "save", "done"}
               /\ cancelled' \/ AttemptFailedStep ]_vars
    /\ [](pc = "poll" => elapsed <= max_wait_time + check_interval)
    /\ (pc = "poll") ~> (pc # "poll")
\* a supply of network errors has carried the wait over the timeout
C26_Witness ==
    /\ pc = "poll" /\ elapsed > max_wait_time /\ last_poll = "neterr"
    /\ InBatchJob

\* C27: every attempt polls against a fresh timeout: the wait is zero when
\* the polling of a new task starts, whatever the number of the attempt, and
\* it grows only by the sleeps of that polling loop.
C27_FreshTimeout ==
    [][ /\ (pc # "poll" /\ pc' = "poll") => (pc = "submit" /\ elapsed' = 0)
        /\ (pc = "poll" /\ pc' = "poll") => elapsed' = elapsed + check_interval
        /\ (pc \in {"backoff", "submit"} /\ pc' \in {"backoff", "submit"}) =>
              elapsed' = elapsed /\ elapsed = 0 ]_vars
\* a retry has waited its full timeout
C27_Witness ==
    /\ InBatchJob /\ pc = "poll" /\ retry_attempt >= 1
    /\ elapsed > max_wait_time

\* C28: one submission per attempt: from the submission the call goes on to
\* poll, or the attempt ends as one failed attempt with no query and no
\* download; the polling and the download never go back to a submission; a
\* new submission is the start of a new attempt, and only a submission that
\* succeeded is polled.
C28_SubmitOnce ==
    [][ /\ pc = "submit" =>
              \/ /\ pc' = "poll"
                 /\ UNCHANGED <<batch_idx, retry_attempt, attempts, status, all_texts>>
              \/ cancelled'
              \/ AttemptFailedStep /\ pc' \notin {"poll", "fetch", "save"}
        /\ pc \in {"poll", "fetch"} => pc' # "submit"
        /\ (pc' = "submit" /\ pc # "submit") =>
              /\ pc \in {"decide", "split", "backoff"}
              /\ InBatchJob => attempts' = attempts + 1
        /\ (pc' = "poll" /\ pc # "poll") => pc = "submit" ]_vars
\* the second attempt of a batch polls the task it submitted
C28_Witness ==
    /\ InBatchJob /\ pc = "poll" /\ attempts = 2 /\ retry_attempt = 1
    /\ elapsed = 0

\* C29: the download starts only from a query that found the task done,
\* happens once per attempt, and its failure ends the attempt as a failure;
\* a query that found the task failed ends the attempt as a failure with no
\* download and no further query.
C29_FetchAfterDone ==
    [][ /\ (pc' = "fetch" /\ pc # "fetch") =>
              pc = "poll" /\ ~(elapsed > max_wait_time)
        /\ pc = "fetch" =>
              /\ pc' \notin {"poll", "submit"}
              /\ \/ pc' \in {"save", "done"}
                 \/ cancelled'
                 \/ AttemptFailedStep
        /\ (pc = "poll" /\ pc' \notin {"poll", "fetch"}) =>
              cancelled' \/ AttemptFailedStep ]_vars
\* a retry of the second batch downloads its text
C29_Witness ==
    /\ InBatchJob /\ pc = "fetch" /\ retry_attempt >= 1 /\ batch_idx >= 1

\* C30: one sleep of retry_delay lies between two consecutive attempts of a
\* batch: the sleep follows a failed attempt that was not the last, it is
\* followed by the next attempt of the same batch, the first attempt follows
\* the split at once, and the attempt that fails the batch for good is
\* followed by the next batch without a sleep.
C30_BackoffBetweenAttempts ==
    [][ InBatchJob =>
            /\ (pc' = "backoff" /\ pc # "backoff") =>
                  /\ pc \in {"submit", "poll", "fetch", "unlink"}
                  /\ retry_attempt' = retry_attempt + 1
                  /\ retry_attempt' < max_retries
                  /\ batch_idx' = batch_idx
                  /\ status'[batch_idx] = "Running"
            /\ pc = "backoff" =>
                  \/ /\ pc' = "submit"
                     /\ attempts' = attempts + 1
                     /\ UNCHANGED <<batch_idx, retry_attempt, status>>
                  \/ cancelled'
            /\ (pc' = "submit" /\ pc # "submit") =>
                  \/ pc = "split" /\ retry_attempt' = 0 /\ attempts' = 1
                  \/ pc = "backoff" /\ retry_attempt' > 0
            /\ pc = "split" => pc' # "backoff"
            /\ \A i \in 0..MaxPages : BecomesFailed(i) => pc' # "backoff" ]_vars
\* the second batch sleeps before its retry; the first batch failed for good
C30_Witness ==
    /\ InBatchJob /\ pc = "backoff" /\ batch_idx = 1 /\ retry_attempt = 1
    /\ status[0] = "FailedPermanently" /\ status[1] = "Running"

\* C31: the sub-document of a batch is written once, by the split that starts
\* the batch, and is gone once the batch is Succeeded or FailedPermanently and
\* the loop has moved on; at most one sub-document exists at any time.
C31_OneSubDocument ==
    InBatchJob =>
        /\ Cardinality(temp_files) <= 1
        /\ \A i \in Batches :
              (status[i] \in Terminal /\ batch_idx > i) => i \notin temp_files

\* C32: the sub-document of a batch holds exactly the copyable pages of the
\* batch's range [start, end), in their original order, and no page from
\* outside the range; when at least one page of the range was copied and the
\* write does not fail, the split goes on to the first attempt of the batch
\* with no error, whatever the number of pages skipped.
C32_SubDocumentPages ==
    [][ (InBatchJob /\ pc = "split") =>
            LET doc == SubDocument(batch_idx)
                range == StartPage(batch_idx)..(EndPage(batch_idx) - 1)
            IN  /\ Increasing(doc)
                /\ {doc[k] : k \in 1..Len(doc)} = range \ unreadable
                /\ Len(doc) = Copied(batch_idx)
                /\ (Len(doc) >= 1 /\ io_faults' = io_faults /\ max_retries > 0) =>
                      /\ pc' = "submit"
                      /\ error' = "none"
                      /\ batch_idx \in temp_files'
                      /\ status'[batch_idx] = "Running"
                      /\ UNCHANGED <<batch_idx, all_texts, file_content>> ]_vars
\* a sub-document that lacks a page of its range is submitted
C32_Witness ==
    /\ InBatchJob /\ pc = "submit" /\ retry_attempt = 0
    /\ Copied(batch_idx) >= 1
    /\ Copied(batch_idx) < EndPage(batch_idx) - StartPage(batch_idx)
    /\ Len(SubDocument(batch_idx)) = Copied(batch_idx)

\* C33: the remote client is built only by the first extraction that finds
\* it unset and is reused, never rebuilt, wherever it is set; every step of a
\* job past the start runs with the client set; a failed construction ends
\* the job before any remote call, any split and any change of the result
\* file, and leaves the client unset for the next job.
C33_LazyClient ==
    [][ /\ ocr_extractor' # ocr_extractor =>
              pc = "start" /\ ocr_extractor = "none" /\ ocr_extractor' = "ready"
        /\ (pc = "start" /\ ocr_extractor = "ready") =>
              pc' = "decide" /\ error' = "none"
        /\ pc' \in {"decide", "batch_start", "split", "submit", "poll", "fetch"} =>
              ocr_extractor' = "ready"
        /\ (pc = "start" /\ pc' = "raised") =>
              /\ ocr_extractor = "none" /\ ocr_extractor' = "none"
              /\ error' = "OcrInitError"
              /\ path' = "none" /\ whole_calls' = 0 /\ attempts' = 0
              /\ ranges' = <<>> /\ ~old_cleared' /\ ~temp_dir'
              /\ UNCHANGED <<all_texts, file_exists, file_content, temp_files, result>>
        /\ error = "OcrInitError" => UNCHANGED vars ]_vars
\* the construction failed: the job has raised, the old result file is as it
\* was and the client is still unset
C33_Witness ==
    /\ pc = "raised" /\ error = "OcrInitError" /\ ocr_extractor = "none"
    /\ file_exists /\ file_content = <<OldItem>>
    /\ whole_calls = 0 /\ attempts = 0

\* C34: a download that brings an empty or blank text ends the attempt as a
\* failed attempt (a retry, or FailedPermanently when it was the last one) and
\* adds nothing to the result list, the result file or the returned text;
\* every Succeeded batch has its text in the result list, and every section
\* of the result file is the text of an attempt that delivered one.
C34_BlankTextFails ==
    [][ /\ (pc = "fetch" /\ last_poll' = "blank") =>
              /\ AttemptFailedStep
              /\ UNCHANGED <<all_texts, file_exists, file_content, result, saved>>
              /\ InBatchJob => status'[batch_idx] # "Succeeded"
        /\ InBatchJob' =>
              /\ \A i \in Batches' : status'[i] = "Succeeded"
                    => Count(BatchesOf(all_texts', "text"), i) >= 1
              /\ \A k \in 1..Len(file_content') : file_content'[k].kind = "text"
                    => \E j \in 1..Len(all_texts') : all_texts'[j] = file_content'[k] ]_vars
\* every attempt of the first batch, the last one included, got a blank text
\* or failed: the batch is FailedPermanently after the blank text
C34_Witness ==
    /\ InBatchJob /\ last_poll = "blank" /\ max_retries >= 2
    /\ status[0] = "FailedPermanently" /\ batch_idx = 1 /\ pc = "split"
    /\ all_texts = <<>>

\* C35: a failed append to the result file is swallowed: the step goes on to
\* the removal of the sub-document with the attempt, the retry count, the
\* statuses and the result list unchanged, the text of the batch in the
\* result list; the removal that follows marks the batch Succeeded and moves
\* to the next batch (or to the banner) whether or not the append was saved.
C35_SaveFailureSwallowed ==
    [][ /\ (pc = "save" /\ io_faults' # io_faults) =>
              /\ pc' = "unlink"
              /\ Count(BatchesOf(all_texts', "text"), batch_idx) >= 1
              /\ UNCHANGED <<batch_idx, retry_attempt, attempts, status, all_texts,
                             file_exists, file_content, saved, error, pending>>
        /\ (pc = "unlink" /\ io_faults' = io_faults) =>
              /\ BecomesSucceeded(batch_idx)
              /\ all_texts' = all_texts
              /\ error' = "none"
              /\ IF batch_idx + 1 < num_batches
                 THEN pc' = "split" /\ batch_idx' = batch_idx + 1
                 ELSE pc' = "banner" ]_vars
\* the append of the first batch failed; both batches are Succeeded and
\* counted by the banner, the job is done
C35_Witness ==
    /\ InBatchJob /\ pc = "done" /\ num_batches = 2
    /\ status[0] = "Succeeded" /\ status[1] = "Succeeded"
    /\ saved = {1} /\ io_faults = 1
    /\ BatchesOf(all_texts, "text") = <<0, 1>>
    /\ \E k \in 1..Len(file_content) :
          file_content[k].kind = "banner" /\ file_content[k].a = 2

\* C36: when the call on the whole document ends otherwise than by its text
\* or a cancellation, a document of known page count (P > 0) is handed to
\* batch processing with no error raised, and with P = 0 the failure is raised
\* at once; the batch processing that follows clears the result file and
\* plans ceil(P / batch_size) batches of at most max_retries attempts each,
\* and a job that chose the whole-document path with P > 0 raises only from
\* that batch processing.
C36_FallbackToBatches ==
    [][ /\ (/\ mode = "whole" /\ pc \in {"submit", "poll", "fetch"}
            /\ pc' \notin {"submit", "poll", "fetch", "done"} /\ ~cancelled') =>
              /\ IF page_count > 0
                 THEN pc' = "batch_start" /\ error' = "none"
                 ELSE pc' = "raised" /\ error' # "none"
              /\ UNCHANGED <<mode, file_exists, file_content, all_texts, result>>
        /\ (path = "whole" /\ pc = "batch_start" /\ io_faults' = io_faults) =>
              /\ mode' = "batch" /\ pc' = "split"
              /\ ~file_exists' /\ file_content' = <<>>
              /\ num_batches' = NumBatches(total_pages, batch_size)
              /\ batch_idx' = 0 /\ attempts' = 0
        /\ (path' = "whole" /\ InBatchJob') =>
              /\ page_count > 0 /\ whole_calls' = 1
              /\ attempts' <= max_retries
        /\ (path' = "whole" /\ page_count > 0 /\ pc' = "raised") =>
              /\ pc \in {"batch_start", "finally"}
              /\ error' \in {"ClearError", "SplitError", "AllBatchesFailed"} ]_vars
\* the call on the whole document failed and the batch processing that took
\* over has delivered both batches
C36_Witness ==
    /\ path = "whole" /\ InBatchJob /\ pc = "done" /\ whole_calls = 1
    /\ num_batches = 2 /\ status[0] = "Succeeded" /\ status[1] = "Succeeded"
    /\ result # <<>>

\* C37 as stated: after every exit of a batched job the temporary directory
\* and every sub-document in it are gone.
C37_Original ==
    (InBatchJob /\ pc \in {"done", "raised", "cancelled"}) =>
        ~temp_dir /\ temp_files = {}
\* C37 amended: every exit of a batched job is the step of the finally
\* clause; that step removes the temporary directory and every sub-document
\* still in it unless the removal itself fails, it never deletes or alters
\* the result file, and nothing runs after it.
C37_CleanupOnExit ==
    [][ /\ (InBatchJob' /\ pc' \in {"done", "raised", "cancelled"}) =>
              /\ InBatchJob /\ pc = "finally" /\ pc' = pending
              /\ io_faults' = io_faults => ~temp_dir' /\ temp_files' = {}
              /\ UNCHANGED <<file_exists, file_content, all_texts, result, error,
                             status, saved>>
        /\ ~(InBatchJob /\ pc \in {"done", "raised", "cancelled"}) ]_vars
\* a cancelled job had saved a section and kept the sub-document of a batch
\* that failed for good: the directory is gone, the result file is not
C37_Witness ==
    /\ InBatchJob /\ pc = "cancelled" /\ io_faults = 0
    /\ ~temp_dir /\ temp_files = {}
    /\ saved # {} /\ file_exists /\ file_content # <<>>
    /\ \E i \in Batches : status[i] = "FailedPermanently"

\* C38: a batched job that has ended has ended in exactly one of three
\* outcomes: completed with at least one Succeeded batch, AllBatchesFailed,
\* or cancelled; and no batch has made more than max_retries attempts.
C38_ThreeOutcomes ==
    /\ InBatchJob => attempts <= max_retries
    /\ (InBatchJob /\ pc \in {"done", "raised", "cancelled"}) =>
          \/ pc = "done" /\ error = "none" /\ Succeeded # {}
          \/ pc = "raised" /\ error = "AllBatchesFailed"
          \/ pc = "cancelled" /\ error = "KeyboardInterrupt"

====
